---- MODULE Spec2Model ----
(***************************************************************************)
(* Model of the connection-management and query-execution layer of         *)
(* supabricks (src/db.py): the connection resolver get_connection, the     *)
(* managed session SparkSession (sql, _ensure_connection,                  *)
(* _close_connection, close) and the connector objects they drive.         *)
(*                                                                         *)
(* Each caller of the shared session walks through the statements of the   *)
(* method it called; pc[c] is the caller's position.  The connector        *)
(* (databricks.sql) is the environment: every call on it either returns    *)
(* or raises, chosen nondeterministically.                                 *)
(***************************************************************************)
EXTENDS Integers, Sequences, FiniteSets, TLC

(***************************************************************************)
(* Bounds of the exploration.                                              *)
(***************************************************************************)
MaxCalls == 3          \* calls of sql()/close() made on the session
MaxRetries == 4        \* max_retries arguments explored: 0..MaxRetries
ConcCalls == 2         \* calls made by the two concurrent callers together
ConcRetries == 2       \* max_retries arguments of concurrent calls: 1..ConcRetries
LiveCalls == 2         \* calls made where termination is examined

Callers == {"A", "B"}
SingleCaller == {"A"}

Queries == {"SELECT 1", "SHOW CATALOGS"}

VARIABLES
  connection,       \* SparkSession.connection: None or a connection object
  cursor,           \* SparkSession.cursor: NoCursor (None) or a cursor object
  liveConns,        \* ids of the connections on which close() was never called
  liveCursors,      \* ids of the cursors on which close() was never called
  ncalls,           \* sql()/close() calls started so far
  pc,               \* pc[c]: position of caller c
  op,               \* op[c]: the method caller c called last ("none", "sql", "close")
  query,            \* query[c]: argument of sql
  max_retries,      \* max_retries[c]: argument of sql
  retries,          \* retries[c]: local of sql
  strategy,         \* strategy[c]: the try block of get_connection the caller is in
  result,           \* result[c]: what the last finished call returned
  attempts,         \* attempts[c]: times the try body of sql was entered in this call
  sleeps,           \* sleeps[c]: arguments of time.sleep in this call, in order
  submitted,        \* submitted[c]: arguments of cursor.execute in this call, in order
  tried,            \* tried[c]: strategies tried by get_connection in this attempt
  resolverOutcome,  \* resolverOutcome[c]: how get_connection ended in this attempt
  resolverCalls,    \* resolverCalls[c]: get_connection calls in this call
  resolverFailures, \* resolverFailures[c]: get_connection calls of this call that returned None
  closeCalls,       \* closeCalls[c]: close() calls on connector objects in this teardown
  closeRaised,      \* closeRaised[c]: which close() raised in this teardown
  teardowns,        \* teardowns[c]: completed _close_connection runs in this call
  fetched,          \* fetched[c]: description and rows the connector returned in this attempt
  pre,              \* pre[c]: the session's references when the call started,
                    \*         and the method the caller had called before
  faults,           \* the connector calls that may raise on their own; the others
                    \* raise only when made on a closed cursor or connection
  epc,              \* position of the caller of list_all_tables
  resp,             \* the DataFrame spark.sql returned to the enumerator last
  catalogs,         \* _list_all_tables_recursive: catalogs
  ci,               \* index of the catalog the outer loop is at
  schemas,          \* _list_all_tables_recursive: schemas
  si,               \* index of the schema the inner loop is at
  all_tables,       \* _list_all_tables_recursive: all_tables
  listing,          \* what list_all_tables returned
  issued,           \* the scopes a schema or table listing query was issued for
  trace,            \* what list_schemas and list_tables_in_schema returned, in order
  endpoint,         \* the write endpoint of main.py serving a request, or "none"
  response          \* what that endpoint responded, or NoResponse

sessVars == <<connection, cursor>>
envVars == <<liveConns, liveCursors>>
argVars == <<op, query, max_retries>>
ghostVars == <<attempts, sleeps, submitted, tried, resolverOutcome,
               resolverCalls, resolverFailures, closeCalls, closeRaised,
               teardowns, fetched, pre>>
enumVars == <<epc, resp, catalogs, ci, schemas, si, all_tables, listing,
              issued, trace>>
sessionVars == <<connection, cursor, liveConns, liveCursors, ncalls, pc, op,
                 query, max_retries, retries, strategy, result, attempts,
                 sleeps, submitted, tried, resolverOutcome, resolverCalls,
                 resolverFailures, closeCalls, closeRaised, teardowns, fetched,
                 pre>>
httpVars == <<endpoint, response>>
vars == <<sessionVars, faults, enumVars, httpVars>>

(***************************************************************************)
(* Values.                                                                 *)
(***************************************************************************)
\* A connection object: its identity and the endpoint path it was opened
\* with.  A cursor object: its identity and the connection it is bound to.
\* Identity 0 is Python's None.
None == [id |-> 0, path |-> "none"]
NoCursor == [id |-> 0, conn |-> 0]

\* Variant: the protocol path is tried before the warehouse path.
StrategyOrder_Swapped == <<"protocol", "warehouse", "endpoint">>

\* The three endpoint strategies of get_connection, in the order of its
\* nested try blocks.
StrategyOrder == <<"warehouse", "protocol", "endpoint">>

\* What a call returned: nothing yet, a DataFrame, Python's None, or an
\* exception that left the method.
Pending == [kind |-> "pending", columns |-> <<>>, rows |-> <<>>]
PyNone == [kind |-> "None", columns |-> <<>>, rows |-> <<>>]
Raised == [kind |-> "raised", columns |-> <<>>, rows |-> <<>>]

\* pd.DataFrame()
EmptyDataFrame == [kind |-> "table", columns |-> <<>>, rows |-> <<>>]

\* cursor.description: None, or a sequence of (name, type_code, ...) tuples.
NoDescription == [present |-> FALSE, cols |-> <<>>]
Descriptions ==
  { NoDescription,
    [present |-> TRUE, cols |-> << <<"x", "int">> >>],
    [present |-> TRUE, cols |-> << <<"x", "int">>, <<"y", "int">> >>] }

\* cursor.fetchall(): a list of row tuples.
ResultSets == { <<>>, << <<1>> >>, << <<1>>, <<2>> >>, << <<1, 2>> >> }

NoFetch == [description |-> NoDescription, data |-> <<>>]

\* Variant: the list comprehension picks desc[1], the type code.
ColumnNames_TypeCode(description) ==
  IF description.present /\ description.cols # <<>>
    THEN [i \in DOMAIN description.cols |-> description.cols[i][2]]
    ELSE <<>>

\* [desc[0] for desc in self.cursor.description] if self.cursor.description else []
ColumnNames(description) ==
  IF description.present /\ description.cols # <<>>
    THEN [i \in DOMAIN description.cols |-> description.cols[i][1]]
    ELSE <<>>

\* pd.DataFrame(data, columns=columns) raises when a row's width differs from
\* the number of column names.
DataFrameRaises(data, columns) ==
  \E i \in DOMAIN data : Len(data[i]) # Len(columns)

DataFrame(data, columns) ==
  [kind |-> "table", columns |-> columns, rows |-> data]

RECURSIVE Pow(_, _)
Pow(b, n) == IF n = 0 THEN 1 ELSE b * Pow(b, n - 1)

\* Variant: linear backoff, 2 * retries.
WaitTime_Linear(r) == 2 * r

\* wait_time = 2 ** retries
WaitTime(r) == Pow(2, r)

NoCloseRaised == [cursor |-> FALSE, connection |-> FALSE]

\* The identity of a newly created object: different from every object the
\* state still refers to.
Fresh(used) == CHOOSE i \in 1..(Cardinality(used) + 1) :
                 /\ i \notin used
                 /\ \A j \in 1..(i - 1) : j \in used

ConnIds == liveConns \cup {connection.id, cursor.conn}
             \cup {pre[c].connection.id : c \in Callers}
             \cup {pre[c].cursor.conn : c \in Callers}
CursorIds == liveCursors \cup {cursor.id} \cup {pre[c].cursor.id : c \in Callers}

(***************************************************************************)
(* Initial state: spark = SparkSession(), no call made.                    *)
(***************************************************************************)
SessionInit ==
  /\ connection = None
  /\ cursor = NoCursor
  /\ liveConns = {}
  /\ liveCursors = {}
  /\ ncalls = 0
  /\ pc = [c \in Callers |-> "idle"]
  /\ op = [c \in Callers |-> "none"]
  /\ query = [c \in Callers |-> "SELECT 1"]
  /\ max_retries = [c \in Callers |-> 0]
  /\ retries = [c \in Callers |-> 0]
  /\ strategy = [c \in Callers |-> 0]
  /\ result = [c \in Callers |-> Pending]
  /\ attempts = [c \in Callers |-> 0]
  /\ sleeps = [c \in Callers |-> <<>>]
  /\ submitted = [c \in Callers |-> <<>>]
  /\ tried = [c \in Callers |-> <<>>]
  /\ resolverOutcome = [c \in Callers |-> "none"]
  /\ resolverCalls = [c \in Callers |-> 0]
  /\ resolverFailures = [c \in Callers |-> 0]
  /\ closeCalls = [c \in Callers |-> 0]
  /\ closeRaised = [c \in Callers |-> NoCloseRaised]
  /\ teardowns = [c \in Callers |-> 0]
  /\ fetched = [c \in Callers |-> NoFetch]
  /\ pre = [c \in Callers |-> [connection |-> None, cursor |-> NoCursor, op |-> "none"]]

\* No list_all_tables call made.
EnumInit ==
  /\ epc = "idle"
  /\ resp = EmptyDataFrame
  /\ catalogs = <<>>
  /\ ci = 0
  /\ schemas = <<>>
  /\ si = 0
  /\ all_tables = <<>>
  /\ listing = <<>>
  /\ issued = {}
  /\ trace = <<>>

\* What an endpoint has responded while it has not.
NoResponse == [code |-> 0, status |-> "none"]

\* No request made to a write endpoint.
HttpInit ==
  /\ endpoint = "none"
  /\ response = NoResponse

\* Every connector call may raise.
AllFaults == {"connect", "cursor", "execute", "fetch", "close"}

Init == SessionInit /\ faults = AllFaults /\ EnumInit /\ HttpInit

\* The per-call bookkeeping as it stands when a call starts.
StartCall(c) ==
  /\ ncalls' = ncalls + 1
  /\ result' = [result EXCEPT ![c] = Pending]
  /\ attempts' = [attempts EXCEPT ![c] = 0]
  /\ sleeps' = [sleeps EXCEPT ![c] = <<>>]
  /\ submitted' = [submitted EXCEPT ![c] = <<>>]
  /\ tried' = [tried EXCEPT ![c] = <<>>]
  /\ resolverOutcome' = [resolverOutcome EXCEPT ![c] = "none"]
  /\ resolverCalls' = [resolverCalls EXCEPT ![c] = 0]
  /\ resolverFailures' = [resolverFailures EXCEPT ![c] = 0]
  /\ closeCalls' = [closeCalls EXCEPT ![c] = 0]
  /\ closeRaised' = [closeRaised EXCEPT ![c] = NoCloseRaised]
  /\ teardowns' = [teardowns EXCEPT ![c] = 0]
  /\ fetched' = [fetched EXCEPT ![c] = NoFetch]
  /\ pre' = [pre EXCEPT ![c] = [connection |-> connection, cursor |-> cursor,
                                 op |-> op[c]]]

(***************************************************************************)
(* SparkSession.sql(query, max_retries)                                    *)
(***************************************************************************)
\* def sql(self, query, max_retries=3): retries = 0
\* called with a query of qs and a max_retries of ms, as one of at most
\* limit calls.
SqlCalled(c, qs, ms, limit) ==
  /\ pc[c] = "idle"
  /\ ncalls < limit
  /\ \E q \in qs, m \in ms :
       /\ query' = [query EXCEPT ![c] = q]
       /\ max_retries' = [max_retries EXCEPT ![c] = m]
  /\ op' = [op EXCEPT ![c] = "sql"]
  /\ retries' = [retries EXCEPT ![c] = 0]
  /\ pc' = [pc EXCEPT ![c] = "while"]
  /\ StartCall(c)
  /\ UNCHANGED <<sessVars, envVars, strategy>>
  /\ UNCHANGED <<faults, enumVars>>

CallSql(c) ==
  /\ SqlCalled(c, Queries, 0..MaxRetries, MaxCalls)
  /\ UNCHANGED httpVars

\* while retries < max_retries:
LoopGuard(r, m) == r < m

\* The loop test; entering the body starts an attempt, leaving the loop falls
\* off the end of the function, which returns None.
While(c) ==
  /\ pc[c] = "while"
  /\ IF LoopGuard(retries[c], max_retries[c])
       THEN /\ pc' = [pc EXCEPT ![c] = "ensure"]
            /\ attempts' = [attempts EXCEPT ![c] = @ + 1]
            /\ tried' = [tried EXCEPT ![c] = <<>>]
            /\ resolverOutcome' = [resolverOutcome EXCEPT ![c] = "none"]
            /\ closeCalls' = [closeCalls EXCEPT ![c] = 0]
            /\ closeRaised' = [closeRaised EXCEPT ![c] = NoCloseRaised]
            /\ fetched' = [fetched EXCEPT ![c] = NoFetch]
            /\ UNCHANGED <<result, op>>
       ELSE /\ pc' = [pc EXCEPT ![c] = "idle"]
            /\ result' = [result EXCEPT ![c] = PyNone]
            /\ UNCHANGED op
            /\ UNCHANGED <<attempts, tried, resolverOutcome, closeCalls,
                           closeRaised, fetched>>
  /\ UNCHANGED <<sessVars, envVars, ncalls, query, max_retries, retries,
                 strategy, sleeps, submitted, resolverCalls, resolverFailures,
                 teardowns, pre>>
  /\ UNCHANGED <<faults, enumVars, httpVars>>

\* Variant: _ensure_connection reconnects on every attempt, without the
\* "is None" test.
EnsureConnection_Always(c) ==
  /\ pc[c] = "ensure"
  /\ pc' = [pc EXCEPT ![c] = "connect"]
  /\ strategy' = [strategy EXCEPT ![c] = 1]
  /\ tried' = [tried EXCEPT ![c] = <<>>]
  /\ resolverOutcome' = [resolverOutcome EXCEPT ![c] = "running"]
  /\ resolverCalls' = [resolverCalls EXCEPT ![c] = @ + 1]
  /\ UNCHANGED <<sessVars, envVars, ncalls, argVars, retries, result, attempts,
                 sleeps, submitted, resolverFailures, closeCalls, closeRaised,
                 teardowns, fetched, pre>>
  /\ UNCHANGED <<faults, enumVars, httpVars>>

\* _ensure_connection: if self.connection is None: ... get_connection()
EnsureConnection(c) ==
  /\ pc[c] = "ensure"
  /\ IF connection = None
       THEN /\ pc' = [pc EXCEPT ![c] = "connect"]
            /\ strategy' = [strategy EXCEPT ![c] = 1]
            /\ tried' = [tried EXCEPT ![c] = <<>>]
            /\ resolverOutcome' = [resolverOutcome EXCEPT ![c] = "running"]
            /\ resolverCalls' = [resolverCalls EXCEPT ![c] = @ + 1]
       ELSE /\ pc' = [pc EXCEPT ![c] = "check"]
            /\ UNCHANGED <<strategy, tried, resolverOutcome, resolverCalls>>
  /\ UNCHANGED <<sessVars, envVars, ncalls, argVars, retries, result, attempts,
                 sleeps, submitted, resolverFailures, closeCalls, closeRaised,
                 teardowns, fetched, pre>>
  /\ UNCHANGED <<faults, enumVars, httpVars>>

(***************************************************************************)
(* get_connection(): one step per sql.connect call.                        *)
(***************************************************************************)
\* The connect of the try block the caller is in returns a connection:
\* get_connection returns it and _ensure_connection stores it.
ConnectSucceeds(c) ==
  /\ liveConns' = liveConns \cup {Fresh(ConnIds)}
  /\ connection' = [id |-> Fresh(ConnIds), path |-> StrategyOrder[strategy[c]]]
  /\ resolverOutcome' = [resolverOutcome EXCEPT ![c] = "connection"]
  /\ pc' = [pc EXCEPT ![c] = "cursor"]
  /\ strategy' = [strategy EXCEPT ![c] = 0]
  /\ UNCHANGED resolverFailures

\* Variant: the last try block has no except clause, so the exception of the
\* third connect leaves get_connection and lands in the except clause of sql.
ConnectRaises_Propagates(c) ==
  /\ UNCHANGED <<liveConns, connection, resolverFailures>>
  /\ IF strategy[c] < Len(StrategyOrder)
       THEN /\ strategy' = [strategy EXCEPT ![c] = @ + 1]
            /\ UNCHANGED <<resolverOutcome, pc>>
       ELSE /\ resolverOutcome' = [resolverOutcome EXCEPT ![c] = "raised"]
            /\ pc' = [pc EXCEPT ![c] = "except"]
            /\ strategy' = [strategy EXCEPT ![c] = 0]

\* The connect raises: the except clause runs the next try block, and the
\* last one returns None, which _ensure_connection stores.
ConnectRaises(c) ==
  /\ UNCHANGED liveConns
  /\ IF strategy[c] < Len(StrategyOrder)
       THEN /\ strategy' = [strategy EXCEPT ![c] = @ + 1]
            /\ UNCHANGED <<connection, resolverOutcome, pc, resolverFailures>>
       ELSE /\ connection' = None
            /\ resolverOutcome' = [resolverOutcome EXCEPT ![c] = "failure"]
            /\ resolverFailures' = [resolverFailures EXCEPT ![c] = @ + 1]
            /\ pc' = [pc EXCEPT ![c] = "check"]
            /\ strategy' = [strategy EXCEPT ![c] = 0]

Connect(c) ==
  /\ pc[c] = "connect"
  /\ \/ /\ tried' = [tried EXCEPT ![c] =
                       Append(@, [path |-> StrategyOrder[strategy[c]], ok |-> TRUE])]
        /\ ConnectSucceeds(c)
     \/ /\ "connect" \in faults
        /\ tried' = [tried EXCEPT ![c] =
                       Append(@, [path |-> StrategyOrder[strategy[c]], ok |-> FALSE])]
        /\ ConnectRaises(c)
  /\ UNCHANGED <<cursor, liveCursors, ncalls, argVars,
                 retries, result, attempts, sleeps, submitted, resolverCalls,
                 closeCalls, closeRaised, teardowns, fetched, pre>>
  /\ UNCHANGED <<faults, enumVars, httpVars>>

(***************************************************************************)
(* _ensure_connection, after get_connection returned a connection:         *)
(*   if self.connection: self.cursor = self.connection.cursor()            *)
(***************************************************************************)
Cursor(c) ==
  /\ pc[c] = "cursor"
  /\ IF connection = None
       THEN /\ pc' = [pc EXCEPT ![c] = "check"]
            /\ UNCHANGED <<cursor, liveCursors>>
       ELSE \/ /\ connection.id \in liveConns
               /\ liveCursors' = liveCursors \cup {Fresh(CursorIds)}
               /\ cursor' = [id |-> Fresh(CursorIds), conn |-> connection.id]
               /\ pc' = [pc EXCEPT ![c] = "check"]
            \/ /\ "cursor" \in faults \/ connection.id \notin liveConns
               /\ pc' = [pc EXCEPT ![c] = "except"]
               /\ UNCHANGED <<cursor, liveCursors>>
  /\ UNCHANGED <<connection, liveConns, ncalls, argVars,
                 retries, strategy, result, ghostVars>>
  /\ UNCHANGED <<faults, enumVars, httpVars>>

\* Variant: without a connection sql gives up at once and returns the empty
\* DataFrame instead of raising into its retry loop.
Check_GivesUp(c) ==
  /\ pc[c] = "check"
  /\ IF connection = None \/ cursor = NoCursor
       THEN /\ pc' = [pc EXCEPT ![c] = "idle"]
            /\ result' = [result EXCEPT ![c] = EmptyDataFrame]
       ELSE /\ pc' = [pc EXCEPT ![c] = "execute"]
            /\ UNCHANGED result
  /\ UNCHANGED <<sessVars, envVars, ncalls, argVars, retries, strategy,
                 ghostVars>>
  /\ UNCHANGED <<faults, enumVars, httpVars>>

\* if not self.connection or not self.cursor: raise Exception(...)
Check(c) ==
  /\ pc[c] = "check"
  /\ IF connection = None \/ cursor = NoCursor
       THEN pc' = [pc EXCEPT ![c] = "except"]
       ELSE pc' = [pc EXCEPT ![c] = "execute"]
  /\ UNCHANGED <<sessVars, envVars, ncalls, argVars, retries, strategy,
                 result, ghostVars>>
  /\ UNCHANGED <<faults, enumVars, httpVars>>

\* A cursor can serve a statement while neither it nor its connection has
\* been closed.
Usable(k) == k.id \in liveCursors /\ k.conn \in liveConns

\* Variant: the cursor is closed as soon as the statement has run, before
\* its rows are fetched.
Execute_ThenClose(c) ==
  /\ pc[c] = "execute"
  /\ IF cursor = NoCursor
       THEN /\ pc' = [pc EXCEPT ![c] = "except"]
            /\ UNCHANGED <<submitted, liveCursors>>
       ELSE /\ submitted' = [submitted EXCEPT ![c] = Append(@, query[c])]
            /\ \/ /\ Usable(cursor)
                  /\ pc' = [pc EXCEPT ![c] = "fetch"]
                  /\ liveCursors' = liveCursors \ {cursor.id}
               \/ /\ "execute" \in faults \/ ~Usable(cursor)
                  /\ pc' = [pc EXCEPT ![c] = "except"]
                  /\ UNCHANGED liveCursors
  /\ UNCHANGED <<sessVars, liveConns, ncalls, argVars, retries, strategy,
                 result, attempts, sleeps, tried, resolverOutcome,
                 resolverCalls, resolverFailures, closeCalls, closeRaised,
                 teardowns, fetched, pre>>
  /\ UNCHANGED <<faults, enumVars, httpVars>>

\* self.cursor.execute(query)
Execute(c) ==
  /\ pc[c] = "execute"
  /\ IF cursor = NoCursor
       THEN /\ pc' = [pc EXCEPT ![c] = "except"]
            /\ UNCHANGED submitted
       ELSE /\ submitted' = [submitted EXCEPT ![c] = Append(@, query[c])]
            /\ \/ /\ Usable(cursor)
                  /\ pc' = [pc EXCEPT ![c] = "fetch"]
               \/ /\ "execute" \in faults \/ ~Usable(cursor)
                  /\ pc' = [pc EXCEPT ![c] = "except"]
  /\ UNCHANGED <<sessVars, envVars, ncalls, argVars, retries, strategy,
                 result, attempts, sleeps, tried, resolverOutcome,
                 resolverCalls, resolverFailures, closeCalls, closeRaised,
                 teardowns, fetched, pre>>
  /\ UNCHANGED <<faults, enumVars, httpVars>>

\* What the engine may answer: anything of Descriptions and ResultSets, or,
\* when it answers faithfully, the one row and one column of "SELECT 1".
Answers ==
  IF "fetch" \in faults
    THEN [descriptions |-> Descriptions, data |-> ResultSets]
    ELSE [descriptions |-> {[present |-> TRUE, cols |-> << <<"x", "int">> >>]},
          data |-> { << <<1>> >> }]

\* columns = [...]; data = self.cursor.fetchall();
\* df = pd.DataFrame(data, columns=columns); return df
Fetch(c) ==
  /\ pc[c] = "fetch"
  /\ \/ /\ cursor # NoCursor
        /\ Usable(cursor)
        /\ \E d \in Answers.descriptions, data \in Answers.data :
             /\ fetched' = [fetched EXCEPT ![c] = [description |-> d, data |-> data]]
             /\ IF DataFrameRaises(data, ColumnNames(d))
                  THEN /\ pc' = [pc EXCEPT ![c] = "except"]
                       /\ UNCHANGED <<result, op>>
                  ELSE /\ pc' = [pc EXCEPT ![c] = "idle"]
                       /\ result' = [result EXCEPT ![c] = DataFrame(data, ColumnNames(d))]
                       /\ UNCHANGED op
     \/ /\ "fetch" \in faults \/ cursor = NoCursor \/ ~Usable(cursor)
        /\ pc' = [pc EXCEPT ![c] = "except"]
        /\ UNCHANGED <<result, op, fetched>>
  /\ UNCHANGED <<sessVars, envVars, ncalls, query, max_retries, retries,
                 strategy, attempts, sleeps, submitted, tried, resolverOutcome,
                 resolverCalls, resolverFailures, closeCalls, closeRaised,
                 teardowns, pre>>
  /\ UNCHANGED <<faults, enumVars, httpVars>>

\* Variant: the except clause counts the failure and does not call
\* self._close_connection().
Except_NoTeardown(c) ==
  /\ pc[c] = "except"
  /\ retries' = [retries EXCEPT ![c] = @ + 1]
  /\ pc' = [pc EXCEPT ![c] = "backoff"]
  /\ UNCHANGED <<sessVars, envVars, ncalls, argVars, strategy, result,
                 ghostVars>>
  /\ UNCHANGED <<faults, enumVars, httpVars>>

\* Variant: the except clause forgets retries += 1.
Except_NoIncrement(c) ==
  /\ pc[c] = "except"
  /\ pc' = [pc EXCEPT ![c] = "closecur"]
  /\ UNCHANGED <<sessVars, envVars, ncalls, argVars, retries, strategy, result,
                 ghostVars>>
  /\ UNCHANGED <<faults, enumVars, httpVars>>

\* except Exception as e: retries += 1; ...; self._close_connection()
Except(c) ==
  /\ pc[c] = "except"
  /\ retries' = [retries EXCEPT ![c] = @ + 1]
  /\ pc' = [pc EXCEPT ![c] = "closecur"]
  /\ UNCHANGED <<sessVars, envVars, ncalls, argVars, strategy, result,
                 ghostVars>>
  /\ UNCHANGED <<faults, enumVars, httpVars>>

(***************************************************************************)
(* SparkSession._close_connection()                                        *)
(***************************************************************************)
\* Variant: one try block around both closes, so a cursor.close() that raises
\* skips connection.close().
CloseCursor_OneTry(c) ==
  /\ pc[c] = "closecur"
  /\ IF cursor # NoCursor
       THEN /\ liveCursors' = liveCursors \ {cursor.id}
            /\ closeCalls' = [closeCalls EXCEPT ![c] = @ + 1]
            /\ \/ /\ UNCHANGED closeRaised
                  /\ pc' = [pc EXCEPT ![c] = "closeconn"]
               \/ /\ closeRaised' = [closeRaised EXCEPT ![c].cursor = TRUE]
                  /\ pc' = [pc EXCEPT ![c] = "reset"]
       ELSE /\ UNCHANGED <<liveCursors, closeCalls, closeRaised>>
            /\ pc' = [pc EXCEPT ![c] = "closeconn"]
  /\ UNCHANGED <<sessVars, liveConns,
                 ncalls, argVars, retries, strategy, result, attempts, sleeps,
                 submitted, tried, resolverOutcome, resolverCalls,
                 resolverFailures, teardowns,
                 fetched, pre>>
  /\ UNCHANGED <<faults, enumVars, httpVars>>

\* try: if self.cursor: self.cursor.close()   except: pass
CloseCursor(c) ==
  /\ pc[c] = "closecur"
  /\ IF cursor # NoCursor
       THEN /\ liveCursors' = liveCursors \ {cursor.id}
            /\ closeCalls' = [closeCalls EXCEPT ![c] = @ + 1]
            /\ \/ UNCHANGED closeRaised
               \/ /\ "close" \in faults
                  /\ closeRaised' = [closeRaised EXCEPT ![c].cursor = TRUE]
       ELSE UNCHANGED <<liveCursors, closeCalls, closeRaised>>
  /\ pc' = [pc EXCEPT ![c] = "closeconn"]
  /\ UNCHANGED <<sessVars, liveConns,
                 ncalls, argVars, retries, strategy, result, attempts, sleeps,
                 submitted, tried, resolverOutcome, resolverCalls,
                 resolverFailures, teardowns,
                 fetched, pre>>
  /\ UNCHANGED <<faults, enumVars, httpVars>>

\* Variant: no try/except around connection.close(), so its exception
\* leaves _close_connection and the method that called it.
CloseConn_Propagates(c) ==
  /\ pc[c] = "closeconn"
  /\ IF connection # None
       THEN /\ liveConns' = liveConns \ {connection.id}
            /\ closeCalls' = [closeCalls EXCEPT ![c] = @ + 1]
            /\ \/ /\ UNCHANGED <<closeRaised, result>>
                  /\ pc' = [pc EXCEPT ![c] = "reset"]
               \/ /\ closeRaised' = [closeRaised EXCEPT ![c].connection = TRUE]
                  /\ result' = [result EXCEPT ![c] = Raised]
                  /\ pc' = [pc EXCEPT ![c] = "idle"]
       ELSE /\ UNCHANGED <<liveConns, closeCalls, closeRaised, result>>
            /\ pc' = [pc EXCEPT ![c] = "reset"]
  /\ UNCHANGED <<sessVars, liveCursors,
                 ncalls, argVars, retries, strategy, attempts, sleeps,
                 submitted, tried, resolverOutcome, resolverCalls,
                 resolverFailures, teardowns,
                 fetched, pre>>
  /\ UNCHANGED <<faults, enumVars, httpVars>>

\* Variant: the reference is dropped without calling connection.close().
CloseConn_NoClose(c) ==
  /\ pc[c] = "closeconn"
  /\ pc' = [pc EXCEPT ![c] = "reset"]
  /\ UNCHANGED <<sessVars, envVars, ncalls, argVars, retries, strategy, result,
                 ghostVars>>
  /\ UNCHANGED <<faults, enumVars, httpVars>>

\* try: if self.connection: self.connection.close()   except: pass
CloseConn(c) ==
  /\ pc[c] = "closeconn"
  /\ IF connection # None
       THEN /\ liveConns' = liveConns \ {connection.id}
            /\ closeCalls' = [closeCalls EXCEPT ![c] = @ + 1]
            /\ \/ UNCHANGED closeRaised
               \/ /\ "close" \in faults
                  /\ closeRaised' = [closeRaised EXCEPT ![c].connection = TRUE]
       ELSE UNCHANGED <<liveConns, closeCalls, closeRaised>>
  /\ pc' = [pc EXCEPT ![c] = "reset"]
  /\ UNCHANGED <<sessVars, liveCursors,
                 ncalls, argVars, retries, strategy, result, attempts, sleeps,
                 submitted, tried, resolverOutcome, resolverCalls,
                 resolverFailures, teardowns,
                 fetched, pre>>
  /\ UNCHANGED <<faults, enumVars, httpVars>>

\* Variant: the two assignments that reset the references are missing.
Reset_KeepBoth(c) ==
  /\ pc[c] = "reset"
  /\ UNCHANGED <<connection, cursor>>
  /\ teardowns' = [teardowns EXCEPT ![c] = @ + 1]
  /\ IF op[c] = "sql"
       THEN /\ pc' = [pc EXCEPT ![c] = "backoff"]
            /\ UNCHANGED result
       ELSE /\ pc' = [pc EXCEPT ![c] = "idle"]
            /\ result' = [result EXCEPT ![c] = PyNone]
  /\ UNCHANGED <<envVars, ncalls, argVars, retries, strategy,
                 attempts, sleeps, submitted, tried, resolverOutcome,
                 resolverCalls, resolverFailures, closeCalls, closeRaised,
                 fetched, pre>>
  /\ UNCHANGED <<faults, enumVars, httpVars>>

\* Variant: only self.connection is reset, self.cursor keeps its value.
Reset_KeepCursor(c) ==
  /\ pc[c] = "reset"
  /\ connection' = None
  /\ UNCHANGED cursor
  /\ teardowns' = [teardowns EXCEPT ![c] = @ + 1]
  /\ IF op[c] = "sql"
       THEN /\ pc' = [pc EXCEPT ![c] = "backoff"]
            /\ UNCHANGED result
       ELSE /\ pc' = [pc EXCEPT ![c] = "idle"]
            /\ result' = [result EXCEPT ![c] = PyNone]
  /\ UNCHANGED <<envVars, ncalls, argVars, retries, strategy,
                 attempts, sleeps, submitted, tried, resolverOutcome,
                 resolverCalls, resolverFailures, closeCalls, closeRaised,
                 fetched, pre>>
  /\ UNCHANGED <<faults, enumVars, httpVars>>

\* self.connection = None; self.cursor = None; then back in the caller:
\* the except clause of sql, or close(), which returns.
Reset(c) ==
  /\ pc[c] = "reset"
  /\ connection' = None
  /\ cursor' = NoCursor
  /\ teardowns' = [teardowns EXCEPT ![c] = @ + 1]
  /\ IF op[c] = "sql"
       THEN /\ pc' = [pc EXCEPT ![c] = "backoff"]
            /\ UNCHANGED <<result, op>>
       ELSE /\ pc' = [pc EXCEPT ![c] = "idle"]
            /\ result' = [result EXCEPT ![c] = PyNone]
            /\ UNCHANGED op
  /\ UNCHANGED <<envVars, ncalls, query, max_retries, retries, strategy,
                 attempts, sleeps, submitted, tried, resolverOutcome,
                 resolverCalls, resolverFailures, closeCalls, closeRaised,
                 fetched, pre>>
  /\ UNCHANGED <<faults, enumVars, httpVars>>

\* Variant: the test is retries <= max_retries, so the last failure sleeps
\* as well and the loop test ends the call.
Backoff_OffByOne(c) ==
  /\ pc[c] = "backoff"
  /\ IF retries[c] <= max_retries[c]
       THEN /\ sleeps' = [sleeps EXCEPT ![c] = Append(@, WaitTime(retries[c]))]
            /\ pc' = [pc EXCEPT ![c] = "while"]
            /\ UNCHANGED <<result, op>>
       ELSE /\ pc' = [pc EXCEPT ![c] = "idle"]
            /\ result' = [result EXCEPT ![c] = EmptyDataFrame]
            /\ UNCHANGED op
            /\ UNCHANGED sleeps
  /\ UNCHANGED <<sessVars, envVars, ncalls, query, max_retries, retries,
                 strategy, attempts, submitted, tried, resolverOutcome,
                 resolverCalls, resolverFailures, closeCalls, closeRaised,
                 teardowns, fetched, pre>>
  /\ UNCHANGED <<faults, enumVars, httpVars>>

\* if retries < max_retries: time.sleep(2 ** retries)
\* else: return pd.DataFrame()
Backoff(c) ==
  /\ pc[c] = "backoff"
  /\ IF retries[c] < max_retries[c]
       THEN /\ sleeps' = [sleeps EXCEPT ![c] = Append(@, WaitTime(retries[c]))]
            /\ pc' = [pc EXCEPT ![c] = "while"]
            /\ UNCHANGED <<result, op>>
       ELSE /\ pc' = [pc EXCEPT ![c] = "idle"]
            /\ result' = [result EXCEPT ![c] = EmptyDataFrame]
            /\ UNCHANGED op
            /\ UNCHANGED sleeps
  /\ UNCHANGED <<sessVars, envVars, ncalls, query, max_retries, retries,
                 strategy, attempts, submitted, tried, resolverOutcome,
                 resolverCalls, resolverFailures, closeCalls, closeRaised,
                 teardowns, fetched, pre>>
  /\ UNCHANGED <<faults, enumVars, httpVars>>

\* def close(self): self._close_connection()
CloseCalled(c, limit) ==
  /\ pc[c] = "idle"
  /\ ncalls < limit
  /\ op' = [op EXCEPT ![c] = "close"]
  /\ pc' = [pc EXCEPT ![c] = "closecur"]
  /\ StartCall(c)
  /\ UNCHANGED <<sessVars, envVars, query, max_retries, retries, strategy>>
  /\ UNCHANGED <<faults, enumVars, httpVars>>

CallClose(c) == CloseCalled(c, MaxCalls)

(***************************************************************************)
(* The session used by one caller at a time.                               *)
(***************************************************************************)
Next ==
  \E c \in SingleCaller :
    \/ CallSql(c)
    \/ While(c)
    \/ EnsureConnection(c)
    \/ Connect(c)
    \/ Cursor(c)
    \/ Check(c)
    \/ Execute(c)
    \/ Fetch(c)
    \/ Except(c)
    \/ CloseCursor(c)
    \/ CloseConn(c)
    \/ Reset(c)
    \/ Backoff(c)
    \/ CallClose(c)

Spec == Init /\ [][Next]_vars

(***************************************************************************)
(* The module-level session shared by two callers (request threads) whose  *)
(* steps interleave; the session has no lock.                              *)
(***************************************************************************)
\* The calls of the two callers: a request handler's spark.sql(query), which
\* may run into the other's, and spark.close().
ConcCallSql(c) ==
  /\ SqlCalled(c, {"SELECT 1"}, 1..ConcRetries, ConcCalls)
  /\ UNCHANGED httpVars

ConcCallClose(c) == CloseCalled(c, ConcCalls)

NextConc ==
  \E c \in Callers :
    \/ ConcCallSql(c)
    \/ While(c)
    \/ EnsureConnection(c)
    \/ Connect(c)
    \/ Cursor(c)
    \/ Check(c)
    \/ Execute(c)
    \/ Fetch(c)
    \/ Except(c)
    \/ CloseCursor(c)
    \/ CloseConn(c)
    \/ Reset(c)
    \/ Backoff(c)
    \/ ConcCallClose(c)

\* A call in progress takes its next step: the connector call it waits
\* for returns or raises, the sleep ends.
Progress ==
  \E c \in SingleCaller :
    \/ While(c)
    \/ EnsureConnection(c)
    \/ Connect(c)
    \/ Cursor(c)
    \/ Check(c)
    \/ Execute(c)
    \/ Fetch(c)
    \/ Except(c)
    \/ CloseCursor(c)
    \/ CloseConn(c)
    \/ Reset(c)
    \/ Backoff(c)

LiveCallSql(c) ==
  /\ SqlCalled(c, Queries, 0..MaxRetries, LiveCalls)
  /\ UNCHANGED httpVars

LiveCallClose(c) == CloseCalled(c, LiveCalls)

NextLive ==
  \/ \E c \in SingleCaller : LiveCallSql(c) \/ LiveCallClose(c)
  \/ Progress

\* The session with every connector call eventually returning or raising.
SpecLive == Init /\ [][NextLive]_vars /\ WF_vars(Progress)

\* The two callers work against a connector whose connects, cursors,
\* fetches and closes work, and whose execute may fail the statement.
InitConc == SessionInit /\ faults = {"execute"} /\ EnumInit /\ HttpInit

SpecConc == InitConc /\ [][NextConc]_vars

(***************************************************************************)
(* The table enumerator: list_catalogs, list_schemas,                      *)
(* list_tables_in_schema, list_all_tables and _list_all_tables_recursive.  *)
(*                                                                         *)
(* Names are sequences of characters, so that str.startswith and the       *)
(* f-string of full_name are computed and not assumed.  Each query the     *)
(* enumerator makes is one spark.sql call; the call is taken as a whole    *)
(* here: it returns the DataFrame of a successful attempt, or              *)
(* pd.DataFrame() after the last retry, and leaves the session connected   *)
(* or torn down accordingly.                                               *)
(***************************************************************************)
MaxRows == 2           \* rows in one answer of the SQL endpoint

M == <<"m">>
D == <<"d">>
A == <<"a">>
B == <<"b">>
T == <<"t">>
U == <<"u">>
F == <<"f">>
Dot == <<".">>
Sys == <<"s", "y", "s">>
System == <<"s", "y", "s", "t", "e", "m">>
InformationSchema == <<"i", "n", "f", "o", "r", "m", "a", "t", "i", "o", "n",
                       "_", "s", "c", "h", "e", "m", "a">>

CatalogNames == {M, D, Sys, System, InformationSchema}
SchemaNames == {A, B, Sys, InformationSchema}
TableNames == {T, U}

\* str.startswith
StartsWith(name, prefix) ==
  /\ Len(name) >= Len(prefix)
  /\ SubSeq(name, 1, Len(prefix)) = prefix

\* Variant: the prefix test is missing, only the two listed names are skipped.
IsSystemCatalog_NoPrefix(catalog) ==
  catalog \in {InformationSchema, System}

\* catalog.startswith('sys') or catalog in ['information_schema', 'system']
IsSystemCatalog(catalog) ==
  StartsWith(catalog, Sys) \/ catalog \in {InformationSchema, System}

\* schema.startswith('sys') or schema in ['information_schema', 'system']
IsSystemSchema(schema) ==
  StartsWith(schema, Sys) \/ schema \in {InformationSchema, System}

\* Variant: schema and catalog change places in the f-string.
FullName_SchemaFirst(catalog, schema, name) ==
  schema \o Dot \o catalog \o Dot \o name

\* f"{catalog}.{schema}.{row[table_name_col]}"
FullName(catalog, schema, name) ==
  catalog \o Dot \o schema \o Dot \o name

\* A DataFrame with the given columns and rows.
Frame(columns, rows) == [kind |-> "table", columns |-> columns, rows |-> rows]

\* col in df.columns
HasColumn(df, col) == \E k \in DOMAIN df.columns : df.columns[k] = col

\* row[col] of the r-th row
Cell(df, r, col) ==
  df.rows[r][CHOOSE k \in DOMAIN df.columns : df.columns[k] = col]

\* [row[col] for _, row in df.iterrows()]
Values(df, col) == [r \in DOMAIN df.rows |-> Cell(df, r, col)]

\* list_catalogs: row["catalog"] of every row; with rows that have no such
\* column the KeyError is caught and the result is [].
ListCatalogs(df) ==
  IF HasColumn(df, "catalog") THEN Values(df, "catalog") ELSE <<>>

\* Variant: the column named schema is probed before namespace.
ListSchemas_SchemaFirst(df) ==
  IF HasColumn(df, "schema") THEN Values(df, "schema")
  ELSE IF HasColumn(df, "namespace") THEN Values(df, "namespace")
  ELSE IF HasColumn(df, "databaseName") THEN Values(df, "databaseName")
  ELSE <<>>

\* list_schemas: the if/elif chain over namespace, schema, databaseName.
ListSchemas(df) ==
  IF HasColumn(df, "namespace") THEN Values(df, "namespace")
  ELSE IF HasColumn(df, "schema") THEN Values(df, "schema")
  ELSE IF HasColumn(df, "databaseName") THEN Values(df, "databaseName")
  ELSE <<>>

\* The dict list_tables_in_schema builds for one row.
Descriptor(catalog, schema, name) ==
  [name |-> name, full_name |-> FullName(catalog, schema, name),
   catalog |-> catalog, schema |-> schema]

\* list_tables_in_schema: tableName is probed before name.
ListTablesInSchema(df, catalog, schema) ==
  IF HasColumn(df, "tableName")
    THEN [r \in DOMAIN df.rows |->
            Descriptor(catalog, schema, Cell(df, r, "tableName"))]
  ELSE IF HasColumn(df, "name")
    THEN [r \in DOMAIN df.rows |->
            Descriptor(catalog, schema, Cell(df, r, "name"))]
  ELSE <<>>

\* df.to_dict(orient="records") of the answer to the metadata query.
ToDict(df) ==
  [r \in DOMAIN df.rows |->
     [name |-> Cell(df, r, "name"), full_name |-> Cell(df, r, "full_name"),
      catalog |-> Cell(df, r, "catalog"), schema |-> Cell(df, r, "schema")]]

\* The sequences without repetition of at most n elements of S.
Seqs(S, n) ==
  UNION {{s \in [1..k -> S] : \A i, j \in 1..k : s[i] = s[j] => i = j} :
           k \in 0..n}

\* Rows of information_schema.tables at the SQL endpoint.
RemoteTable(c, s, n, t) ==
  [table_catalog |-> c, table_schema |-> s, table_name |-> n, table_type |-> t]

RemoteTables ==
  {RemoteTable(M, A, T, "BASE TABLE"), RemoteTable(D, B, U, "BASE TABLE"),
   RemoteTable(M, A, U, "VIEW"), RemoteTable(Sys, A, T, "BASE TABLE"),
   RemoteTable(System, B, T, "BASE TABLE"),
   RemoteTable(InformationSchema, A, U, "BASE TABLE")}

\* The WHERE clause of the metadata query.
Where(t) ==
  /\ t.table_type = "BASE TABLE"
  /\ ~StartsWith(t.table_catalog, Sys)
  /\ t.table_catalog \notin {InformationSchema, System}

\* The SELECT list of the metadata query.
Select(t) ==
  <<t.table_catalog, t.table_schema, t.table_name,
    t.table_catalog \o Dot \o t.table_schema \o Dot \o t.table_name>>

\* The answer of the endpoint to the metadata query over the given rows.
MetadataQuery(tables) ==
  LET kept == SelectSeq(tables, Where)
  IN  Frame(<<"catalog", "schema", "name", "full_name">>,
            [r \in DOMAIN kept |-> Select(kept[r])])

\* What spark.sql("SHOW CATALOGS") may return: the catalog column, an
\* answer without that column, or pd.DataFrame() after the last retry.
CatalogAnswers ==
  {Frame(<<col>>, [r \in DOMAIN names |-> <<names[r]>>]) :
     col \in {"catalog", "databaseName"}, names \in Seqs(CatalogNames, MaxRows)}
  \cup {EmptyDataFrame}

\* What spark.sql("SHOW SCHEMAS IN ...") may return.
SchemaAnswers ==
  {Frame(<<col>>, [r \in DOMAIN names |-> <<names[r]>>]) :
     col \in {"namespace", "schema", "databaseName", "name"},
     names \in Seqs(SchemaNames, MaxRows)}
  \cup {Frame(cols, <<row>>) :
          cols \in {<<"schema", "namespace">>, <<"databaseName", "schema">>},
          row \in Seqs(SchemaNames, 2) \ Seqs(SchemaNames, 1)}
  \cup {EmptyDataFrame}

\* What spark.sql("SHOW TABLES IN ...") may return.
TableAnswers(schema) ==
  {Frame(<<"database", "tableName", "isTemporary">>,
         [r \in DOMAIN names |-> <<schema, names[r], F>>]) :
     names \in Seqs(TableNames, MaxRows)}
  \cup {Frame(<<col>>, [r \in DOMAIN names |-> <<names[r]>>]) :
          col \in {"name", "table"}, names \in Seqs(TableNames, MaxRows)}
  \cup {Frame(<<"name", "tableName">>, <<row>>) :
          row \in Seqs(TableNames, 2) \ Seqs(TableNames, 1)}
  \cup {EmptyDataFrame}

\* One thing the enumerator obtained: the answer to the metadata query, or
\* what a listing function returned for a scope.
Entry(kind, catalog, schema, out, src) ==
  [kind |-> kind, catalog |-> catalog, schema |-> schema, out |-> out,
   src |-> src]

callVars == <<ncalls, pc, argVars, retries, strategy, result, ghostVars>>

\* The session when spark.sql returns df to the enumerator: pd.DataFrame()
\* is returned after the last attempt failed and _close_connection ran;
\* any other answer comes from an attempt that held a connection and a
\* cursor, the ones the session had or ones this call established.
SessionAfter(df) ==
  /\ IF df = EmptyDataFrame
       THEN /\ connection' = None
            /\ cursor' = NoCursor
            /\ liveConns' = liveConns \ {connection.id}
            /\ liveCursors' = liveCursors \ {cursor.id}
       ELSE IF connection # None
         THEN UNCHANGED <<sessVars, envVars>>
         ELSE \E p \in IF "connect" \in faults THEN DOMAIN StrategyOrder ELSE {1} :
                /\ connection' = [id |-> Fresh(ConnIds), path |-> StrategyOrder[p]]
                /\ cursor' = [id |-> Fresh(CursorIds), conn |-> Fresh(ConnIds)]
                /\ liveConns' = liveConns \cup {Fresh(ConnIds)}
                /\ liveCursors' = liveCursors \cup {Fresh(CursorIds)}
  /\ UNCHANGED <<callVars, faults, httpVars>>

\* list_all_tables() is called: the metadata query is built and submitted.
ListAllTables ==
  /\ epc = "idle"
  /\ epc' = "primary"
  /\ UNCHANGED <<resp, catalogs, ci, schemas, si, all_tables, listing,
                 issued, trace>>
  /\ UNCHANGED <<sessionVars, faults, httpVars>>

\* An exception leaves the try block of list_all_tables: the except clause
\* logs it and returns _list_all_tables_recursive(exclude_system=True).
PrimaryRaises ==
  /\ epc = "primary"
  /\ resp' = Raised
  /\ trace' = <<Entry("raised", <<>>, <<>>, <<>>, <<>>)>>
  /\ epc' = "catalogs"
  /\ UNCHANGED <<catalogs, ci, schemas, si, all_tables, listing, issued>>
  /\ UNCHANGED <<sessionVars, faults, httpVars>>

\* Variant: the recursive strategy runs only when the query failed, an
\* answer of zero rows is returned as it is.
PrimaryReturns_AsItIs ==
  /\ epc = "primary"
  /\ \E remote \in Seqs(RemoteTables, MaxRows), failed \in BOOLEAN :
       LET df == IF failed THEN EmptyDataFrame ELSE MetadataQuery(remote)
       IN  /\ failed => remote = <<>>
           /\ resp' = df
           /\ SessionAfter(df)
           /\ IF failed
                THEN /\ trace' = <<Entry("failed", <<>>, <<>>, <<>>, <<>>)>>
                     /\ epc' = "catalogs"
                     /\ UNCHANGED listing
                ELSE /\ trace' = <<Entry(IF df.rows = <<>> THEN "empty" ELSE "rows",
                                         <<>>, <<>>, ToDict(df),
                                         IF df.rows = <<>> THEN <<>> ELSE remote)>>
                     /\ listing' = ToDict(df)
                     /\ epc' = "done"
  /\ UNCHANGED <<catalogs, ci, schemas, si, all_tables, issued>>

\* df = spark.sql(query) returns.  if df.empty: return
\* _list_all_tables_recursive(exclude_system=True); otherwise
\* return df.to_dict(orient="records").
PrimaryReturns ==
  /\ epc = "primary"
  /\ \E remote \in Seqs(RemoteTables, MaxRows), failed \in BOOLEAN :
       LET df == IF failed THEN EmptyDataFrame ELSE MetadataQuery(remote)
       IN  /\ failed => remote = <<>>
           /\ resp' = df
           /\ SessionAfter(df)
           /\ IF df.rows = <<>>
                THEN /\ trace' = <<Entry(IF failed THEN "failed" ELSE "empty",
                                         <<>>, <<>>, <<>>, <<>>)>>
                     /\ epc' = "catalogs"
                     /\ UNCHANGED listing
                ELSE /\ trace' = <<Entry("rows", <<>>, <<>>, ToDict(df), remote)>>
                     /\ listing' = ToDict(df)
                     /\ epc' = "done"
  /\ UNCHANGED <<catalogs, ci, schemas, si, all_tables, issued>>

\* all_tables = []; catalogs = list_catalogs()
ListCatalogsReturns ==
  /\ epc = "catalogs"
  /\ \E df \in CatalogAnswers :
       /\ resp' = df
       /\ SessionAfter(df)
       /\ catalogs' = ListCatalogs(df)
       /\ trace' = Append(trace, Entry("catalogs", <<>>, <<>>, ListCatalogs(df), <<>>))
  /\ all_tables' = <<>>
  /\ ci' = 1
  /\ epc' = "catalog"
  /\ UNCHANGED <<schemas, si, listing, issued>>

\* for catalog in catalogs: a system catalog is skipped, for any other
\* list_schemas(catalog) is called; after the last one all_tables is returned.
NextCatalog ==
  /\ epc = "catalog"
  /\ resp' = EmptyDataFrame
  /\ IF ci > Len(catalogs)
       THEN /\ listing' = all_tables
            /\ epc' = "done"
            /\ UNCHANGED <<ci, issued>>
       ELSE IF IsSystemCatalog(catalogs[ci])
         THEN /\ ci' = ci + 1
              /\ UNCHANGED <<epc, listing, issued>>
         ELSE /\ issued' = issued \cup {<<catalogs[ci]>>}
              /\ epc' = "schemas"
              /\ UNCHANGED <<ci, listing>>
  /\ UNCHANGED <<catalogs, schemas, si, all_tables, trace>>
  /\ UNCHANGED <<sessionVars, faults, httpVars>>

\* schemas = list_schemas(catalog)
ListSchemasReturns ==
  /\ epc = "schemas"
  /\ \E df \in SchemaAnswers :
       /\ resp' = df
       /\ SessionAfter(df)
       /\ schemas' = ListSchemas(df)
       /\ trace' = Append(trace, Entry("schemas", catalogs[ci], <<>>,
                                       ListSchemas(df), <<>>))
  /\ si' = 1
  /\ epc' = "schema"
  /\ UNCHANGED <<catalogs, ci, all_tables, listing, issued>>

\* Variant: a catalog whose schema listing came back empty ends the
\* traversal (break out of the catalog loop instead of going on).
NextSchema_StopOnEmpty ==
  /\ epc = "schema"
  /\ resp' = EmptyDataFrame
  /\ IF schemas = <<>>
       THEN /\ ci' = Len(catalogs) + 1
            /\ epc' = "catalog"
            /\ UNCHANGED <<si, issued>>
       ELSE IF si > Len(schemas)
         THEN /\ ci' = ci + 1
              /\ epc' = "catalog"
              /\ UNCHANGED <<si, issued>>
         ELSE IF IsSystemSchema(schemas[si])
           THEN /\ si' = si + 1
                /\ UNCHANGED <<epc, ci, issued>>
           ELSE /\ issued' = issued \cup {<<catalogs[ci], schemas[si]>>}
                /\ epc' = "tables"
                /\ UNCHANGED <<ci, si>>
  /\ UNCHANGED <<catalogs, schemas, all_tables, listing, trace>>
  /\ UNCHANGED <<sessionVars, faults, httpVars>>

\* for schema in schemas: a system schema is skipped, for any other
\* list_tables_in_schema(catalog, schema) is called; after the last one the
\* catalog loop goes on.
NextSchema ==
  /\ epc = "schema"
  /\ resp' = EmptyDataFrame
  /\ IF si > Len(schemas)
       THEN /\ ci' = ci + 1
            /\ epc' = "catalog"
            /\ UNCHANGED <<si, issued>>
       ELSE IF IsSystemSchema(schemas[si])
         THEN /\ si' = si + 1
              /\ UNCHANGED <<epc, ci, issued>>
         ELSE /\ issued' = issued \cup {<<catalogs[ci], schemas[si]>>}
              /\ epc' = "tables"
              /\ UNCHANGED <<ci, si>>
  /\ UNCHANGED <<catalogs, schemas, all_tables, listing, trace>>
  /\ UNCHANGED <<sessionVars, faults, httpVars>>

\* Variant: the tables of a schema are put in front of all_tables.
ListTablesReturns_InFront ==
  /\ epc = "tables"
  /\ \E df \in TableAnswers(schemas[si]) :
       LET tables == ListTablesInSchema(df, catalogs[ci], schemas[si])
       IN  /\ resp' = df
           /\ SessionAfter(df)
           /\ all_tables' = tables \o all_tables
           /\ trace' = Append(trace, Entry("tables", catalogs[ci], schemas[si],
                                           tables, <<>>))
  /\ si' = si + 1
  /\ epc' = "schema"
  /\ UNCHANGED <<catalogs, ci, schemas, listing, issued>>

\* tables = list_tables_in_schema(catalog, schema); all_tables.extend(tables)
ListTablesReturns ==
  /\ epc = "tables"
  /\ \E df \in TableAnswers(schemas[si]) :
       LET tables == ListTablesInSchema(df, catalogs[ci], schemas[si])
       IN  /\ resp' = df
           /\ SessionAfter(df)
           /\ all_tables' = all_tables \o tables
           /\ trace' = Append(trace, Entry("tables", catalogs[ci], schemas[si],
                                           tables, <<>>))
  /\ si' = si + 1
  /\ epc' = "schema"
  /\ UNCHANGED <<catalogs, ci, schemas, listing, issued>>

NextEnum ==
  \/ ListAllTables
  \/ PrimaryRaises
  \/ PrimaryReturns
  \/ ListCatalogsReturns
  \/ NextCatalog
  \/ ListSchemasReturns
  \/ NextSchema
  \/ ListTablesReturns

\* The enumerator works against a connector whose connects, cursors,
\* fetches and closes work, and whose execute may fail the statement.
InitEnum == SessionInit /\ faults = {"execute"} /\ EnumInit /\ HttpInit

SpecEnum == InitEnum /\ [][NextEnum]_vars

(***************************************************************************)
(* The write endpoints of src/main.py: insert_rows, update_rows,           *)
(* delete_rows, create_table, drop_table.  Each builds one statement,      *)
(* calls spark.sql(query) with the default max_retries and responds.       *)
(***************************************************************************)
MaxRequests == 2       \* requests made to the write endpoints

WriteEndpoints ==
  {"insert_rows", "update_rows", "delete_rows", "create_table", "drop_table"}

\* The statement the endpoint builds.
StatementOf(e) ==
  CASE e = "insert_rows" -> "INSERT INTO t (c) VALUES ('v')"
    [] e = "update_rows" -> "UPDATE t SET c = 'v' WHERE k = 'w'"
    [] e = "delete_rows" -> "DELETE FROM t WHERE k = 'w'"
    [] e = "create_table" -> "CREATE TABLE t (c STRING)"
    [] e = "drop_table" -> "DROP TABLE t"

\* The status of the dict the endpoint returns after spark.sql(query).
StatusOf(e) ==
  CASE e = "insert_rows" -> "inserted"
    [] e = "update_rows" -> "updated"
    [] e = "delete_rows" -> "deleted"
    [] e = "create_table" -> "created"
    [] e = "drop_table" -> "dropped"

\* def sql(self, query, max_retries=3)
DefaultMaxRetries == 3

\* A request reaches a write endpoint: the statement is built and
\* spark.sql(query) is called.
WriteRequest(c) ==
  /\ endpoint = "none" \/ response # NoResponse
  /\ \E e \in WriteEndpoints :
       /\ endpoint' = e
       /\ SqlCalled(c, {StatementOf(e)}, {DefaultMaxRetries}, MaxRequests)
  /\ response' = NoResponse

\* spark.sql(query) is back in the endpoint: its value is dropped and the
\* status dict is returned; an exception out of it would reach the except
\* clause, which raises HTTPException(status_code=500).
Respond(c) ==
  /\ endpoint # "none"
  /\ response = NoResponse
  /\ pc[c] = "idle"
  /\ response' = IF result[c].kind = "raised"
                   THEN [code |-> 500, status |-> "error"]
                   ELSE [code |-> 200, status |-> StatusOf(endpoint)]
  /\ UNCHANGED <<endpoint, sessionVars, faults, enumVars>>

NextHttp ==
  \E c \in SingleCaller :
    \/ WriteRequest(c)
    \/ While(c)
    \/ EnsureConnection(c)
    \/ Connect(c)
    \/ Cursor(c)
    \/ Check(c)
    \/ Execute(c)
    \/ Fetch(c)
    \/ Except(c)
    \/ CloseCursor(c)
    \/ CloseConn(c)
    \/ Reset(c)
    \/ Backoff(c)
    \/ Respond(c)

SpecHttp == Init /\ [][NextHttp]_vars

TypeOK ==
  /\ connection.id \in Nat
  /\ cursor.id \in Nat
  /\ liveConns \subseteq Nat
  /\ liveCursors \subseteq Nat
  /\ ncalls \in Nat
  /\ faults \subseteq AllFaults
  /\ \A c \in Callers :
       /\ pc[c] \in {"idle", "while", "ensure", "connect", "cursor", "check",
                     "execute", "fetch", "except", "closecur", "closeconn",
                     "reset", "backoff"}
       /\ op[c] \in {"none", "sql", "close"}
       /\ result[c].kind \in {"pending", "table", "None", "raised"}

(***************************************************************************)
(* Vocabulary of the properties.                                           *)
(***************************************************************************)
\* Positions inside the try body of sql.
InAttempt(c) ==
  pc[c] \in {"ensure", "connect", "cursor", "check", "execute", "fetch"}

\* sql has returned to caller c.
SqlReturned(c) == op[c] = "sql" /\ pc[c] = "idle"

\* close has returned to caller c.
CloseReturned(c) == op[c] = "close" /\ pc[c] = "idle"

\* sql returned from its last attempt, every earlier attempt having failed.
Succeeded(c) == SqlReturned(c) /\ teardowns[c] < attempts[c]

\* sql returned after each of its attempts failed.
Exhausted(c) ==
  SqlReturned(c) /\ attempts[c] >= 1 /\ teardowns[c] = attempts[c]

Disconnected == connection = None /\ cursor = NoCursor

(***************************************************************************)
(* C1.  sql never lets an exception reach its caller, and a call with      *)
(* max_retries >= 1 whose max_retries attempts all failed returns the      *)
(* empty DataFrame: no columns, no rows.                                   *)
(***************************************************************************)
C1_EmptyOnExhaustion ==
  \A c \in Callers :
    op[c] = "sql" =>
      /\ result[c].kind # "raised"
      /\ (/\ pc[c] = "idle"
          /\ max_retries[c] >= 1
          /\ attempts[c] = max_retries[c]
          /\ teardowns[c] = attempts[c])
         => /\ result[c].kind = "table"
            /\ result[c].columns = <<>>
            /\ result[c].rows = <<>>

\* Three attempts, failing at different places (one before a statement was
\* submitted, one after), and the empty DataFrame returned.
C1_Witness ==
  /\ Exhausted("A")
  /\ max_retries["A"] = 3
  /\ attempts["A"] = 3
  /\ Len(submitted["A"]) = 1
  /\ resolverCalls["A"] = 3
  /\ result["A"] = EmptyDataFrame

(***************************************************************************)
(* C2.  For max_retries >= 1 a call of sql makes at most max_retries       *)
(* attempts; an attempt starts only while the call has not returned, every *)
(* earlier attempt of the call has failed, and fewer than max_retries      *)
(* attempts have failed.                                                   *)
(***************************************************************************)
C2_BoundedAttempts ==
  [][\A c \in Callers :
       (op'[c] = "sql" /\ max_retries'[c] >= 1) =>
         /\ attempts'[c] <= max_retries'[c]
         /\ (attempts'[c] = attempts[c] + 1) =>
              /\ result[c] = Pending
              /\ teardowns[c] = attempts[c]
              /\ teardowns[c] < max_retries[c]]_vars

\* A call that succeeded on its second attempt of four allowed, and stopped.
C2_Witness ==
  /\ Succeeded("A")
  /\ max_retries["A"] = 4
  /\ attempts["A"] = 2
  /\ teardowns["A"] = 1

(***************************************************************************)
(* C3.  The i-th sleep of a call of sql lasts 2^i seconds; there is one    *)
(* sleep between each failed attempt and the next attempt and none         *)
(* elsewhere: a call that succeeds after k failures has slept 2^1..2^k,    *)
(* a call that exhausts max_retries has slept max_retries - 1 times, none  *)
(* after its last failure.                                                 *)
(***************************************************************************)
C3_ExponentialBackoff ==
  \A c \in Callers :
    op[c] = "sql" =>
      /\ \A i \in DOMAIN sleeps[c] : sleeps[c][i] = 2^i
      /\ InAttempt(c) => Len(sleeps[c]) = attempts[c] - 1
      /\ Succeeded(c) => /\ Len(sleeps[c]) = teardowns[c]
                         /\ teardowns[c] = attempts[c] - 1
      /\ Exhausted(c) => /\ attempts[c] = max_retries[c]
                         /\ Len(sleeps[c]) = max_retries[c] - 1

\* Three failures, then a success on the fourth attempt, after sleeps of
\* 2, 4 and 8 seconds.
C3_Witness ==
  /\ Succeeded("A")
  /\ teardowns["A"] = 3
  /\ sleeps["A"] = <<2, 4, 8>>

(***************************************************************************)
(* C4.  When the first k attempts of sql fail and attempt k+1 succeeds,    *)
(* sql returns the DataFrame whose columns are the names in the            *)
(* description of that attempt and whose rows are the rows it fetched,     *)
(* with retries = k; every statement submitted during the call is the      *)
(* query argument.                                                         *)
(***************************************************************************)
C4_ResultOfSuccessfulAttempt ==
  \A c \in Callers :
    op[c] = "sql" =>
      /\ \A i \in DOMAIN submitted[c] : submitted[c][i] = query[c]
      /\ Succeeded(c) =>
           /\ result[c].kind = "table"
           /\ Len(result[c].columns) = Len(fetched[c].description.cols)
           /\ \A i \in DOMAIN result[c].columns :
                result[c].columns[i] = fetched[c].description.cols[i][1]
           /\ result[c].rows = fetched[c].data
           /\ retries[c] = attempts[c] - 1
           /\ teardowns[c] = retries[c]
           /\ Len(submitted[c]) >= 1

\* "SELECT 1" against a connector that fails twice and then succeeds: one
\* row, one column, value 1, after two retries.
C4_Witness ==
  /\ Succeeded("A")
  /\ query["A"] = "SELECT 1"
  /\ max_retries["A"] = 3
  /\ retries["A"] = 2
  /\ result["A"] = [kind |-> "table", columns |-> <<"x">>, rows |-> << <<1>> >>]
  /\ submitted["A"] = <<"SELECT 1", "SELECT 1", "SELECT 1">>

(***************************************************************************)
(* C5.  With one caller the session never has two connections open: at     *)
(* most one connection it obtained has not had close() called on it, and   *)
(* get_connection is called only when the reference is None and every      *)
(* connection obtained before has had close() called on it.                *)
(***************************************************************************)
C5_OneConnection ==
  [][/\ Cardinality(liveConns') <= 1
     /\ \A c \in Callers :
          (resolverCalls'[c] = resolverCalls[c] + 1) =>
            /\ connection = None
            /\ liveConns = {}]_vars

\* A connection obtained after an earlier one was torn down, in a later call.
C5_Witness ==
  /\ ncalls >= 2
  /\ teardowns["A"] >= 1
  /\ resolverCalls["A"] >= 2
  /\ connection # None
  /\ liveConns = {connection.id}

(***************************************************************************)
(* C6.  When close() has returned, both references are None, whether or    *)
(* not a close() of the cursor or the connection raised; a close() on a    *)
(* session without connection and cursor (closed before, or never          *)
(* connected) returns normally, leaves both references None and calls      *)
(* close() on no connector object.                                         *)
(***************************************************************************)
C6_CloseIdempotent ==
  \A c \in Callers :
    CloseReturned(c) =>
      /\ result[c] = PyNone
      /\ connection = None
      /\ cursor = NoCursor
      /\ liveConns = {}
      /\ liveCursors = {}
      /\ (pre[c].connection = None /\ pre[c].cursor = NoCursor)
           => closeCalls[c] = 0
      /\ closeCalls[c] = (IF pre[c].cursor # NoCursor THEN 1 ELSE 0)
                         + (IF pre[c].connection # None THEN 1 ELSE 0)

\* close() called right after a close().
C6_Witness ==
  /\ CloseReturned("A")
  /\ pre["A"].op = "close"
  /\ ncalls = 3
  /\ closeCalls["A"] = 0
  /\ Disconnected

(***************************************************************************)
(* C7.  get_connection tries warehouse, protocol, endpoint in that order,  *)
(* each at most once, stops at the first connect that succeeds and returns *)
(* the connection of that connect.                                         *)
(***************************************************************************)
C7_StrategyOrder ==
  \A c \in Callers :
    LET t == tried[c]
        order == <<"warehouse", "protocol", "endpoint">>
    IN /\ Len(t) <= 3
       /\ \A i \in DOMAIN t : t[i].path = order[i]
       /\ \A i \in DOMAIN t : t[i].ok => i = Len(t)
       /\ resolverOutcome[c] = "connection" =>
            /\ Len(t) >= 1
            /\ t[Len(t)].ok
            /\ pc[c] = "cursor" => /\ connection # None
                                   /\ connection.path = t[Len(t)].path
       /\ (Len(t) >= 1 /\ t[Len(t)].ok) => resolverOutcome[c] = "connection"

\* Warehouse raises, protocol raises, endpoint succeeds.
C7_Witness ==
  /\ pc["A"] = "cursor"
  /\ tried["A"] = << [path |-> "warehouse", ok |-> FALSE],
                     [path |-> "protocol", ok |-> FALSE],
                     [path |-> "endpoint", ok |-> TRUE] >>
  /\ connection.path = "endpoint"

(***************************************************************************)
(* C8.  When the three connects all raise, get_connection returns None     *)
(* instead of raising, after exactly three connect calls, and its caller   *)
(* goes on with its next statement.                                        *)
(***************************************************************************)
C8_TotalFailureIsAValue ==
  \A c \in Callers :
    /\ resolverOutcome[c] # "raised"
    /\ (Len(tried[c]) = 3 /\ ~tried[c][3].ok) => resolverOutcome[c] = "failure"
    /\ resolverOutcome[c] = "failure" =>
         /\ Len(tried[c]) = 3
         /\ \A i \in 1..3 : ~tried[c][i].ok
    /\ (resolverOutcome[c] = "failure" /\ pc[c] = "check") =>
         /\ connection = None
         /\ retries[c] = attempts[c] - 1

\* get_connection has just returned None to _ensure_connection.
C8_Witness ==
  /\ resolverOutcome["A"] = "failure"
  /\ pc["A"] = "check"
  /\ Len(tried["A"]) = 3
  /\ connection = None

(***************************************************************************)
(* C9.  Every failed attempt of sql ends with a teardown: close() is       *)
(* called on the cursor and on the connection the session holds, the       *)
(* connection's also when the cursor's raised, nothing raised by them      *)
(* leaves _close_connection, and both references are None before the next  *)
(* attempt or the return; sql that returns after exhausting its retries    *)
(* leaves the session disconnected.                                        *)
(***************************************************************************)
C9_TeardownAfterFailure ==
  \A c \in Callers :
    op[c] = "sql" =>
      /\ result[c].kind # "raised"
      /\ (pc[c] = "backoff" \/ (pc[c] = "while" /\ attempts[c] >= 1)
            \/ Exhausted(c))
         => /\ Disconnected
            /\ liveConns = {}
            /\ liveCursors = {}
            /\ teardowns[c] = attempts[c]
            /\ teardowns[c] = retries[c]
      /\ InAttempt(c) => teardowns[c] = attempts[c] - 1

\* A teardown in which cursor.close() raised and connection.close() was
\* called all the same.
C9_Witness ==
  /\ op["A"] = "sql"
  /\ pc["A"] = "backoff"
  /\ closeRaised["A"].cursor
  /\ closeCalls["A"] = 2
  /\ liveConns = {}
  /\ Disconnected

(***************************************************************************)
(* C10.  The session starts disconnected; get_connection is called only    *)
(* when the connection reference is None; a call of sql that starts on a   *)
(* connected session and has had no failed attempt uses the connection     *)
(* and cursor it found, calls get_connection not at all and closes         *)
(* nothing.                                                                *)
(***************************************************************************)
C10_LazyAndReused ==
  /\ (ncalls = 0 => Disconnected /\ liveConns = {} /\ liveCursors = {})
  /\ \A c \in Callers :
       /\ pc[c] = "connect" => connection = None
       /\ (op[c] = "sql" /\ pre[c].connection # None /\ teardowns[c] = 0
             /\ pc[c] \notin {"closecur", "closeconn", "reset"})
          => /\ connection = pre[c].connection
             /\ cursor = pre[c].cursor
             /\ resolverCalls[c] = 0
             /\ closeCalls[c] = 0
             /\ Usable(cursor)

\* The third of three calls of sql, the second and third served by the
\* connection the first one opened.
C10_Witness ==
  /\ ncalls = 3
  /\ Succeeded("A")
  /\ pre["A"].op = "sql"
  /\ pre["A"].connection # None
  /\ connection = pre["A"].connection
  /\ cursor = pre["A"].cursor
  /\ resolverCalls["A"] = 0

(***************************************************************************)
(* C11.  A get_connection that returns None inside sql is one failed       *)
(* attempt of the retry loop: the attempt submits no statement, is counted *)
(* in retries and torn down like any other, and sql returns only when      *)
(* max_retries attempts have failed; when get_connection returns None on   *)
(* every attempt, sql has called it exactly max_retries times, has         *)
(* submitted nothing and returns the empty DataFrame.                      *)
(***************************************************************************)
C11_ResolverFailureRetried ==
  \A c \in Callers :
    op[c] = "sql" =>
      /\ resolverFailures[c] <= resolverCalls[c]
      /\ resolverCalls[c] <= attempts[c]
      /\ Len(submitted[c]) <= attempts[c] - resolverFailures[c]
      /\ resolverOutcome[c] = "failure" =>
           /\ pc[c] \notin {"execute", "fetch"}
           /\ pc[c] = "backoff" => /\ retries[c] = attempts[c]
                                   /\ teardowns[c] = attempts[c]
                                   /\ Len(sleeps[c]) = attempts[c] - 1
           /\ pc[c] = "idle" => /\ attempts[c] = max_retries[c]
                                /\ result[c] = EmptyDataFrame
      /\ (pc[c] = "idle" /\ attempts[c] >= 1
            /\ resolverFailures[c] = attempts[c])
         => /\ resolverCalls[c] = max_retries[c]
            /\ submitted[c] = <<>>
            /\ Len(sleeps[c]) = max_retries[c] - 1
            /\ result[c] = EmptyDataFrame

\* sql(query, 3) with a resolver that failed three times.
C11_Witness ==
  /\ SqlReturned("A")
  /\ max_retries["A"] = 3
  /\ resolverFailures["A"] = 3
  /\ resolverCalls["A"] = 3
  /\ sleeps["A"] = <<2, 4>>
  /\ result["A"] = EmptyDataFrame

(***************************************************************************)
(* C20.  With one caller, sql calls execute and fetchall only on a cursor  *)
(* that has not been closed, that belongs to the connection the session    *)
(* holds, and whose connection has not been closed; in a call that started *)
(* disconnected or has torn the connection down, the attempt that submits  *)
(* has obtained its connection from get_connection.                        *)
(***************************************************************************)
C20_NoUseAfterClose ==
  \A c \in Callers :
    pc[c] \in {"execute", "fetch"} =>
      /\ cursor # NoCursor
      /\ connection # None
      /\ cursor.id \in liveCursors
      /\ cursor.conn = connection.id
      /\ connection.id \in liveConns
      /\ (teardowns[c] >= 1 \/ pre[c].connection = None)
           => resolverOutcome[c] = "connection"

\* The statement of a sql() that follows a close() is about to be
\* submitted, on a connection opened for it.
C20_Witness ==
  /\ pc["A"] = "execute"
  /\ pre["A"].op = "close"
  /\ pre["A"].connection = None
  /\ resolverOutcome["A"] = "connection"
  /\ Usable(cursor)

(***************************************************************************)
(* C17.  Two calls of sql that interleave on the shared session can reach  *)
(* a state in which one caller is about to submit or fetch on a cursor     *)
(* the other caller has closed or reset (C17_Witness).  A caller gets into *)
(* that position only through the other caller: while the other caller     *)
(* has called nothing, the cursor a caller submits or fetches on is        *)
(* usable.                                                                 *)
(***************************************************************************)
UsesDeadCursor(c) ==
  /\ pc[c] \in {"execute", "fetch"}
  /\ (cursor = NoCursor \/ ~Usable(cursor))

C17_DeadCursorOnlyByInterference ==
  \A c \in Callers :
    UsesDeadCursor(c) => \E d \in Callers \ {c} : op[d] # "none"

\* A is about to fetch, has closed nothing itself, and B, whose statement
\* failed, has just closed the cursor in its teardown.
C17_Witness ==
  /\ op["A"] = "sql"
  /\ pc["A"] = "fetch"
  /\ teardowns["A"] = 0
  /\ pre["A"].op = "none"
  /\ op["B"] = "sql"
  /\ pc["B"] = "closeconn"
  /\ cursor # NoCursor
  /\ cursor.id \notin liveCursors

(***************************************************************************)
(* C18.  Also when two calls of sql interleave, no two connections the     *)
(* session obtained are un-closed at once, and the connection reference    *)
(* is never overwritten by another connection while the connection it      *)
(* held is un-closed.                                                      *)
(***************************************************************************)
C18_OneConnectionConcurrent ==
  [][/\ Cardinality(liveConns') <= 1
     /\ (connection # None /\ connection' # None /\ connection' # connection)
          => connection.id \notin liveConns]_vars

(***************************************************************************)
(* Vocabulary of the enumerator properties.                                *)
(***************************************************************************)
\* list_all_tables has returned.
Listed == epc = "done"

\* The metadata query gave at least one row.
ViaPrimary == trace # <<>> /\ trace[1].kind = "rows"

\* _list_all_tables_recursive was entered: the metadata query gave no row,
\* failed on every retry, or an exception reached the except clause.
ViaRecursive == trace # <<>> /\ trace[1].kind \in {"empty", "failed", "raised"}

\* startswith('sys'), or one of the names information_schema and system.
SystemName(n) == StartsWith(n, Sys) \/ n = InformationSchema \/ n = System

IsSchemas(e) == e.kind = "schemas"
IsTables(e) == e.kind = "tables"
NotSystem(n) == ~SystemName(n)

\* What list_schemas returned, one entry per call, in call order.
SchemaEntries == SelectSeq(trace, IsSchemas)

\* What list_tables_in_schema returned, one entry per call, in call order.
TableEntries == SelectSeq(trace, IsTables)

RECURSIVE Flatten(_)
Flatten(ss) == IF Len(ss) = 0 THEN <<>> ELSE Head(ss) \o Flatten(Tail(ss))

\* C12: list_all_tables returns the primary query's rows only when there is
\* at least one; when the query yields zero rows, failed on every retry or
\* raised, the recursive strategy runs and its result is what is returned.
C12_FallbackIffPrimaryEmpty ==
  Listed =>
    /\ ViaPrimary \/ ViaRecursive
    /\ ViaPrimary =>
         /\ Len(trace) = 1
         /\ resp.rows # <<>>
         /\ Len(listing) = Len(resp.rows)
         /\ \A r \in DOMAIN listing :
              resp.rows[r] = <<listing[r].catalog, listing[r].schema,
                               listing[r].name, listing[r].full_name>>
    /\ ViaRecursive =>
         /\ Len(trace) >= 2
         /\ trace[2].kind = "catalogs"
         /\ listing = all_tables
         /\ listing = Flatten([k \in DOMAIN TableEntries |-> TableEntries[k].out])

\* The metadata query failed on every retry and the tables come from the
\* recursive strategy.
C12_Witness ==
  /\ Listed
  /\ trace[1].kind = "failed"
  /\ Len(listing) >= 1

\* C13: no descriptor list_all_tables returns has a catalog that starts with
\* 'sys' or equals 'information_schema' or 'system', under either strategy,
\* and the recursive strategy issues no schema-listing or table-listing
\* query for such a catalog.
C13_NoSystemCatalog ==
  /\ \A scope \in issued : ~SystemName(scope[1])
  /\ \A k \in DOMAIN trace :
       trace[k].kind \in {"schemas", "tables"} => ~SystemName(trace[k].catalog)
  /\ Listed => \A i \in DOMAIN listing : ~SystemName(listing[i].catalog)

\* The recursive strategy met the catalog sys, skipped it, and
\* returned tables of another catalog.
C13_Witness ==
  /\ Listed
  /\ ViaRecursive
  /\ catalogs = <<Sys, M>>
  /\ Len(listing) >= 1

\* C14: every descriptor returned by list_tables_in_schema and by
\* list_all_tables under both strategies has full_name = catalog + '.' +
\* schema + '.' + name, with the catalog and schema the table was listed
\* under.
C14_FullName ==
  /\ \A k \in DOMAIN trace :
       trace[k].kind = "tables" =>
         /\ <<trace[k].catalog, trace[k].schema>> \in issued
         /\ \A j \in DOMAIN trace[k].out :
              LET d == trace[k].out[j]
              IN  /\ d.catalog = trace[k].catalog
                  /\ d.schema = trace[k].schema
                  /\ d.full_name = d.catalog \o <<".">> \o d.schema \o <<".">> \o d.name
  /\ Listed =>
       \A i \in DOMAIN listing :
         LET d == listing[i]
         IN  /\ d.full_name = d.catalog \o <<".">> \o d.schema \o <<".">> \o d.name
             /\ ViaPrimary =>
                  \E r \in DOMAIN trace[1].src :
                    /\ trace[1].src[r].table_catalog = d.catalog
                    /\ trace[1].src[r].table_schema = d.schema
                    /\ trace[1].src[r].table_name = d.name
             /\ ViaRecursive =>
                  \E k \in DOMAIN trace :
                    /\ trace[k].kind = "tables"
                    /\ \E j \in DOMAIN trace[k].out : trace[k].out[j] = d

\* The recursive strategy returned tables listed under two different
\* schemas.
C14_Witness ==
  /\ Listed
  /\ ViaRecursive
  /\ Len(listing) >= 2
  /\ listing[1].schema # listing[2].schema
  /\ listing[1].full_name = <<"m", ".", "a", ".", "t">>

\* C15: list_schemas returns, in the row order of the query's answer, the
\* values of the first column among namespace, schema, databaseName that
\* the answer has; with none of the three, or with a failed query, it
\* returns the empty sequence.
C15_ListSchemasProbe ==
  (epc = "schema" /\ si = 1 /\ trace[Len(trace)].kind = "schemas") =>
    LET probed == <<"namespace", "schema", "databaseName">>
        present == {k \in DOMAIN probed : HasColumn(resp, probed[k])}
    IN  /\ trace[Len(trace)].out = schemas
        /\ IF present = {}
             THEN schemas = <<>>
             ELSE LET first == CHOOSE k \in present : \A j \in present : k <= j
                      pos == CHOOSE p \in DOMAIN resp.columns :
                               resp.columns[p] = probed[first]
                  IN  /\ Len(schemas) = Len(resp.rows)
                      /\ \A r \in DOMAIN resp.rows : schemas[r] = resp.rows[r][pos]

\* The answer has the columns schema and namespace, in that order, and
\* list_schemas returned the value of namespace.
C15_Witness ==
  /\ epc = "schema"
  /\ si = 1
  /\ resp = Frame(<<"schema", "namespace">>, <<<<A, B>>>>)
  /\ schemas = <<B>>

\* C16: in the recursive enumeration a failure or anomaly while listing one
\* catalog's schemas or one schema's tables empties the contribution of
\* that scope only: every other non-system catalog and schema is still
\* enumerated and its tables are returned.
C16_FailureIsLocal ==
  (Listed /\ ViaRecursive) =>
    /\ \A i \in DOMAIN catalogs :
         ~SystemName(catalogs[i]) =>
           \E k \in DOMAIN trace : /\ trace[k].kind = "schemas"
                                   /\ trace[k].catalog = catalogs[i]
    /\ \A k \in DOMAIN trace :
         trace[k].kind = "schemas" =>
           \A j \in DOMAIN trace[k].out :
             ~SystemName(trace[k].out[j]) =>
               \E m \in DOMAIN trace : /\ m > k
                                       /\ trace[m].kind = "tables"
                                       /\ trace[m].catalog = trace[k].catalog
                                       /\ trace[m].schema = trace[k].out[j]
    /\ \A k \in DOMAIN trace :
         trace[k].kind = "tables" =>
           \A j \in DOMAIN trace[k].out :
             \E i \in DOMAIN listing : listing[i] = trace[k].out[j]

\* The schema listing of the first catalog gave nothing, the table listing
\* of a schema of the second catalog gave nothing, and a table of the second
\* catalog is returned all the same.
C16_Witness ==
  /\ Listed
  /\ ViaRecursive
  /\ catalogs = <<M, D>>
  /\ Len(trace) = 6
  /\ trace[3].kind = "schemas" /\ trace[3].catalog = M /\ trace[3].out = <<>>
  /\ trace[4].kind = "schemas" /\ trace[4].catalog = D
  /\ trace[5].kind = "tables" /\ trace[5].out = <<>>
  /\ trace[6].kind = "tables" /\ trace[6].out # <<>>
  /\ listing = trace[6].out

\* C19: in the recursive strategy the result is the concatenation of the
\* per-schema table lists in traversal order: catalogs in the order
\* list_catalogs returned them, within a catalog the schemas in the order
\* list_schemas returned them, within a schema the tables in the order of
\* the rows of the table listing, system schemas skipped.
C19_TraversalOrder ==
  /\ (epc = "schema" /\ trace[Len(trace)].kind = "tables" /\ resp.rows # <<>>
        /\ trace[Len(trace)].out # <<>>) =>
       LET out == trace[Len(trace)].out
       IN  /\ Len(out) = Len(resp.rows)
           /\ \A r \in DOMAIN out :
                \E p \in DOMAIN resp.rows[r] : resp.rows[r][p] = out[r].name
  /\ (Listed /\ ViaRecursive) =>
       /\ [k \in DOMAIN SchemaEntries |-> SchemaEntries[k].catalog]
            = SelectSeq(catalogs, NotSystem)
       /\ [k \in DOMAIN TableEntries |->
             <<TableEntries[k].catalog, TableEntries[k].schema>>]
            = Flatten([k \in DOMAIN SchemaEntries |->
                 LET kept == SelectSeq(SchemaEntries[k].out, NotSystem)
                 IN  [j \in DOMAIN kept |-> <<SchemaEntries[k].catalog, kept[j]>>]])
       /\ \A k \in DOMAIN TableEntries :
            \A j \in DOMAIN TableEntries[k].out :
              /\ TableEntries[k].out[j].catalog = TableEntries[k].catalog
              /\ TableEntries[k].out[j].schema = TableEntries[k].schema
       /\ [i \in DOMAIN listing |->
             <<listing[i].catalog, listing[i].schema>>]
            = Flatten([k \in DOMAIN TableEntries |->
                 [j \in DOMAIN TableEntries[k].out |->
                    <<TableEntries[k].catalog, TableEntries[k].schema>>]])
       /\ Len(listing) = Len(Flatten([k \in DOMAIN TableEntries |-> TableEntries[k].out]))

\* Two catalogs in the order D, M; in each a system schema is skipped, and
\* the tables come back catalog by catalog, schema by schema, row by row.
C19_Witness ==
  /\ Listed
  /\ ViaRecursive
  /\ catalogs = <<D, M>>
  /\ Len(SchemaEntries) = 2
  /\ SchemaEntries[1].out = <<InformationSchema, B>>
  /\ SchemaEntries[2].out = <<A, Sys>>
  /\ Len(listing) = 3
  /\ listing[1].catalog = D /\ listing[1].name = U
  /\ listing[2].name = T /\ listing[3].name = U
  /\ listing[3].catalog = M

(***************************************************************************)
(* Claims about the session at rest, the value sql returns, the write      *)
(* endpoints and termination.                                              *)
(***************************************************************************)
\* No caller is inside sql() or close().
AtRest == \A c \in Callers : pc[c] = "idle"

\* C21: with a single caller, whenever no sql or close call is in progress
\* the connection reference is None if and only if the cursor reference is
\* None, also after cursor() raised on a newly opened connection.
C21_ConnectionIffCursor ==
  AtRest =>
    /\ connection = None <=> cursor = NoCursor
    /\ connection # None => /\ cursor.conn = connection.id
                            /\ connection.id \in liveConns
                            /\ cursor.id \in liveCursors

\* A call with one attempt obtained a connection, cursor() raised on it,
\* nothing was submitted, and the session is left with neither.
C21_Witness ==
  /\ Exhausted("A")
  /\ max_retries["A"] = 1
  /\ resolverOutcome["A"] = "connection"
  /\ submitted["A"] = <<>>
  /\ Disconnected

\* C22: sql returns a DataFrame, possibly empty and never None, for every
\* max_retries >= 0, the call with max_retries = 0 that makes no attempt
\* included.
C22_AlwaysAResultTable ==
  \A c \in Callers :
    (SqlReturned(c) /\ max_retries[c] >= 0) => result[c].kind = "table"

\* A write endpoint has responded to the request of caller c.
Responded(c) == endpoint # "none" /\ response # NoResponse /\ pc[c] = "idle"

\* C23: a write endpoint responds with its success status only if the
\* statement was executed successfully by the engine, and responds with
\* HTTP 500 when the statement failed on every attempt.
C23_SuccessOnlyIfExecuted ==
  \A c \in SingleCaller :
    Responded(c) =>
      /\ response.status \in {"inserted", "updated", "deleted", "created",
                               "dropped"} => Succeeded(c)
      /\ Exhausted(c) => response.code = 500

RECURSIVE Sum(_)
Sum(seq) == IF Len(seq) = 0 THEN 0 ELSE Head(seq) + Sum(Tail(seq))

\* sql has returned to caller c within its budget: at most max_retries
\* attempts, at most max_retries - 1 sleeps, and 2^1 + ... +
\* 2^(max_retries - 1) seconds of sleep at most.
ReturnedWithinBudget(c) ==
  /\ SqlReturned(c)
  /\ attempts[c] <= max_retries[c]
  /\ Len(sleeps[c]) <= (IF max_retries[c] = 0 THEN 0 ELSE max_retries[c] - 1)
  /\ Sum(sleeps[c]) <= (IF max_retries[c] = 0 THEN 0
                                              ELSE Pow(2, max_retries[c]) - 2)

\* C24: provided every connector call eventually returns or raises, every
\* call of sql eventually returns, after at most max_retries attempts and
\* at most max_retries - 1 sleeps that total at most 2^1 + ... +
\* 2^(max_retries - 1) seconds (6 seconds for the default of 3).
C24_SqlTerminates ==
  \A c \in SingleCaller :
    (op[c] = "sql" /\ pc[c] # "idle") ~> ReturnedWithinBudget(c)

\* A call with max_retries = 3 failed three times and returned after
\* sleeping 2 and 4 seconds.
C24_Witness ==
  /\ Exhausted("A")
  /\ max_retries["A"] = 3
  /\ attempts["A"] = 3
  /\ sleeps["A"] = <<2, 4>>
  /\ Sum(sleeps["A"]) = 6

====
